---- MODULE Spec2Model ----
(***************************************************************************)
(* Model of grafanimate's command line entry point, commands.run(), and of *)
(* the data classes of model.py it works on.                               *)
(*                                                                         *)
(* run() is one sequential procedure.  `pc' is the statement it is about   *)
(* to execute (or, once `status' is "failed", the statement that raised),  *)
(* and each action below is one statement group of run(), in source order. *)
(* Calls into collaborators (get_scenario, make_grafana, make_storage,     *)
(* run_animation, get_dashboard_title, produce_artifacts) either return or *)
(* raise; run() has no try/except, so a raise ends the run.                *)
(*                                                                         *)
(* Logging (commands.py lines 97-106 and 152) has no effect on the state   *)
(* modelled here and is left out.                                          *)
(***************************************************************************)
EXTENDS Integers, Sequences, FiniteSets, TLC

(* ---------------------------------------------------------------------- *)
(* Bounds                                                                  *)
(* ---------------------------------------------------------------------- *)

\* Longest steps list a loaded scenario carries.
MaxSteps == 2

(* ---------------------------------------------------------------------- *)
(* Values                                                                  *)
(* ---------------------------------------------------------------------- *)

\* Python's None.  Option values and scenario attributes are strings or
\* None; None is modelled as a string no input uses.
None == "<None>"

\* Python truthiness of a str-or-None value: None and "" are falsy.
Truthy(v) == v # None /\ v # ""

\* model.py NavigationFlavor: the values of the two enum members.
WINDOW == "window"
EXPAND == "expand"
NavigationFlavor == {WINDOW, EXPAND}

\* Marks a constructor argument that the caller left out.
NotGiven == "<not given>"

\* model.py AnimationStep: the dataclass-generated constructor.  `flavor'
\* is declared Optional[NavigationFlavor], so None is an admitted value; it
\* takes the default only when the argument is left out.
AnimationStep(dtstart, dtuntil, interval, flavor) ==
    [dtstart |-> dtstart, dtuntil |-> dtuntil, interval |-> interval,
     flavor |-> IF flavor = NotGiven THEN WINDOW ELSE flavor]

\* model.py AnimationScenario: the dataclass-generated constructor.
AnimationScenario(steps, grafana_url, dashboard_uid) ==
    [steps |-> steps, grafana_url |-> grafana_url, dashboard_uid |-> dashboard_uid]

\* The name `scenario' before line 121 binds it.
Unbound == AnimationScenario(<<>>, None, None)

(* ---------------------------------------------------------------------- *)
(* The value of options["exposure-time"]: a str as docopt delivers it, a   *)
(* float after line 115, the int 0 after line 118.  Strings are sequences  *)
(* of characters; numbers are counted in tenths of a second.               *)
(* ---------------------------------------------------------------------- *)

PyStr(s)   == [t |-> "str",   s |-> s,    n |-> 0]
PyFloat(n) == [t |-> "float", s |-> <<>>, n |-> n]
PyInt(n)   == [t |-> "int",   s |-> <<>>, n |-> n]

Digits == {"0", "1", "2", "3", "4", "5", "6", "7", "8", "9"}

DigitVal(c) ==
    CASE c = "0" -> 0 [] c = "1" -> 1 [] c = "2" -> 2 [] c = "3" -> 3
      [] c = "4" -> 4 [] c = "5" -> 5 [] c = "6" -> 6 [] c = "7" -> 7
      [] c = "8" -> 8 [] c = "9" -> 9

RECURSIVE IntValue(_)
IntValue(ds) ==
    IF ds = <<>> THEN 0
    ELSE IntValue(SubSeq(ds, 1, Len(ds) - 1)) * 10 + DigitVal(ds[Len(ds)])

DotAt(s) == {i \in 1..Len(s) : s[i] = "."}

\* Python's float(str), on unsigned decimal literals: digits with at most
\* one point and at least one digit.  Anything else raises ValueError.
FloatParses(s) ==
    /\ \A i \in 1..Len(s) : s[i] \in Digits \cup {"."}
    /\ Cardinality(DotAt(s)) <= 1
    /\ \E i \in 1..Len(s) : s[i] \in Digits

\* The parsed value in tenths (the inputs carry at most one decimal).
float(s) ==
    LET d    == IF DotAt(s) = {} THEN Len(s) + 1 ELSE CHOOSE i \in DotAt(s) : TRUE
        ip   == SubSeq(s, 1, d - 1)
        fp   == SubSeq(s, d + 1, Len(s))
    IN  IntValue(ip) * 10 + (IF fp = <<>> THEN 0 ELSE DigitVal(fp[1]))

\* util.asbool on the value docopt gives a flag without argument.
asbool(v) == (v = TRUE)

(* ---------------------------------------------------------------------- *)
(* Inputs                                                                  *)
(* ---------------------------------------------------------------------- *)

\* What a string-valued option can be on the command line: left out
\* (None), given empty, or given a value.
ScenarioArgs      == {None, "", "playdemo"}
GrafanaUrlArgs    == {None, "", "https://play.grafana.org/"}
DashboardUidArgs  == {None, "", "000000012"}
PanelIdArgs       == {None, "", "6"}
DashboardViewArgs == {None, "d", "d-solo"}

\* --exposure-time as typed: "0", "0.5", "2" and a non-number.
ExposureArgs == { <<"0">>, <<"0", ".", "5">>, <<"2">>, <<"x">> }

\* --exposure-time on the command line: left out, or given as typed.
ExposureTimeArgs ==
    {[given |-> FALSE, s |-> <<>>]} \cup {[given |-> TRUE, s |-> e] : e \in ExposureArgs}

Argv ==
    [scenario         : ScenarioArgs,
     grafana_url      : GrafanaUrlArgs,
     dashboard_uid    : DashboardUidArgs,
     panel_id         : PanelIdArgs,
     dashboard_view   : DashboardViewArgs,
     exposure_time    : ExposureTimeArgs,
     use_panel_events : BOOLEAN]

\* What a scenario file can embed.
EmbeddedUrls == {None, "", "http://grafana.example.org"}
EmbeddedUids == {None, "", "1aOmc1sik"}

\* The flavor argument a scenario file passes to AnimationStep.
FlavorArgs == NavigationFlavor \cup {NotGiven, None}

\* Constructor arguments of the steps of a scenario file.
StepArgs == [dtstart : {0}, dtuntil : {10}, interval : {"5s"}, flavor : FlavorArgs]
StepArgLists == UNION { [1..n -> StepArgs] : n \in 1..MaxSteps }

\* Titles the renderer reports.
Titles == {"Dashboard title"}

(* ---------------------------------------------------------------------- *)
(* State                                                                   *)
(* ---------------------------------------------------------------------- *)

VARIABLES
    argv,        \* the command line (input, never written)
    pc,          \* statement of run() to execute next / that raised
    status,      \* "running", "failed" (an exception left run()), "done"
    error,       \* the exception that left run()
    options,     \* the options dict of run()
    scenario,    \* the AnimationScenario object bound at line 121
    embedded,    \* history: the scenario exactly as get_scenario returned it
    step_args,   \* history: constructor arguments of the scenario's steps
    writes,      \* history: attribute assignments made to the scenario
    calls,       \* history: collaborator calls, in call order
    grafana,     \* arguments make_grafana was called with
    orchestrator,\* run_animation: "idle", "running", "returned", "raised"
    title,       \* the local `title' of line 148
    compositor,  \* produce_artifacts: "idle", "running", "returned", "raised"
    produce_args \* arguments produce_artifacts was called with

vars == <<argv, pc, status, error, options, scenario, embedded, step_args,
          writes, calls, grafana, orchestrator, title, compositor, produce_args>>

NoError == [type |-> "", msg |-> ""]
NoOptions ==
    [scenario |-> None, grafana_url |-> None, dashboard_uid |-> None,
     panel_id |-> None, dashboard_view |-> None,
     exposure_time |-> PyStr(<<>>), use_panel_events |-> FALSE]
NoGrafana == [called |-> FALSE, url |-> None, use_panel_events |-> FALSE]
NoProduce == [called |-> FALSE, path |-> <<>>, scenario |-> None, uid |-> None, name |-> None]

Init ==
    /\ argv \in Argv
    /\ pc = "parse"
    /\ status = "running"
    /\ error = NoError
    /\ options = NoOptions
    /\ scenario = Unbound
    /\ embedded = Unbound
    /\ step_args = <<>>
    /\ writes = <<>>
    /\ calls = <<>>
    /\ grafana = NoGrafana
    /\ orchestrator = "idle"
    /\ title = None
    /\ compositor = "idle"
    /\ produce_args = NoProduce

At(l) == status = "running" /\ pc = l

\* An exception leaves run() at the current statement.
Raise(type, msg) ==
    /\ status' = "failed"
    /\ error' = [type |-> type, msg |-> msg]
    /\ pc' = pc

Goto(l) ==
    /\ pc' = l
    /\ UNCHANGED <<status, error>>

(* ---------------------------------------------------------------------- *)
(* run(), statement by statement                                           *)
(* ---------------------------------------------------------------------- *)

\* docopt's default for --exposure-time, from the usage text.
DefaultExposureTime == <<"0", ".", "5">>

\* Lines 94-95: docopt fills in the defaults of the usage text, and
\* normalize_options strips the dashes off the keys.
docopt(a) ==
    [scenario         |-> a.scenario,
     grafana_url      |-> a.grafana_url,
     dashboard_uid    |-> a.dashboard_uid,
     panel_id         |-> a.panel_id,
     dashboard_view   |-> a.dashboard_view,
     exposure_time    |-> PyStr(IF a.exposure_time.given THEN a.exposure_time.s
                                                        ELSE DefaultExposureTime),
     use_panel_events |-> a.use_panel_events]

ParseOptions ==
    /\ At("parse")
    /\ options' = docopt(argv)
    /\ Goto("sanity_scenario")
    /\ UNCHANGED <<argv, scenario, embedded, step_args, writes, calls, grafana,
                   orchestrator, title, compositor, produce_args>>

\* Lines 109-110.
CheckScenario_Skipped ==
    /\ At("sanity_scenario")
    /\ Goto("sanity_solo")
    /\ UNCHANGED <<argv, options, scenario, embedded, step_args, writes, calls,
                   grafana, orchestrator, title, compositor, produce_args>>

CheckScenario ==
    /\ At("sanity_scenario")
    /\ IF ~Truthy(options.scenario)
       THEN Raise("DocoptExit", "Error: Parameter --scenario is mandatory")
       ELSE Goto("sanity_solo")
    /\ UNCHANGED <<argv, options, scenario, embedded, step_args, writes, calls,
                   grafana, orchestrator, title, compositor, produce_args>>

\* Lines 112-113.
CheckSolo_Skipped ==
    /\ At("sanity_solo")
    /\ Goto("normalise")
    /\ UNCHANGED <<argv, options, scenario, embedded, step_args, writes, calls,
                   grafana, orchestrator, title, compositor, produce_args>>

CheckSolo ==
    /\ At("sanity_solo")
    /\ IF options.dashboard_view = "d-solo" /\ ~Truthy(options.panel_id)
       THEN Raise("DocoptExit",
                  "Error: Parameter --panel-id is mandatory for --dashboard-view=d-solo")
       ELSE Goto("normalise")
    /\ UNCHANGED <<argv, options, scenario, embedded, step_args, writes, calls,
                   grafana, orchestrator, title, compositor, produce_args>>

\* Lines 115-118: the value of options once exposure-time is a float,
\* use-panel-events a bool, and exposure-time forced to 0 under panel events.
Normalised_NotForced(o) ==
    [o EXCEPT !.exposure_time = PyFloat(float(o.exposure_time.s)),
              !.use_panel_events = asbool(o.use_panel_events)]

Normalised_AlwaysForced(o) ==
    [o EXCEPT !.exposure_time = PyInt(0),
              !.use_panel_events = asbool(o.use_panel_events)]

Normalised(o) ==
    LET upe == asbool(o.use_panel_events)
    IN  [o EXCEPT !.exposure_time = IF upe THEN PyInt(0)
                                    ELSE PyFloat(float(o.exposure_time.s)),
                  !.use_panel_events = upe]

NormaliseOptions ==
    /\ At("normalise")
    /\ IF ~FloatParses(options.exposure_time.s)
       THEN /\ Raise("ValueError", "could not convert string to float")
            /\ UNCHANGED options
       ELSE /\ options' = Normalised(options)
            /\ Goto("load_scene")
    /\ UNCHANGED <<argv, scenario, embedded, step_args, writes, calls, grafana,
                   orchestrator, title, compositor, produce_args>>

\* The steps a scenario file builds from its constructor arguments.
Steps(args) ==
    [i \in 1..Len(args) |->
        AnimationStep(args[i].dtstart, args[i].dtuntil, args[i].interval, args[i].flavor)]

\* Line 121: get_scenario returns the scenario the reference names, or raises.
LoadScene ==
    /\ At("load_scene")
    /\ calls' = Append(calls, "get_scenario")
    /\ \/ /\ Raise("NotImplementedError", "Animation scenario not implemented")
          /\ UNCHANGED <<scenario, embedded, step_args>>
       \/ \E args \in StepArgLists, url \in EmbeddedUrls, uid \in EmbeddedUids :
            /\ step_args' = args
            /\ scenario' = AnimationScenario(Steps(args), url, uid)
            /\ embedded' = scenario'
            /\ Goto("resolve_url")
    /\ UNCHANGED <<argv, options, writes, grafana, orchestrator, title,
                   compositor, produce_args>>

\* The host line 127 falls back to.
DefaultGrafanaUrl == "http://localhost:3000"

\* An attribute assignment `scenario.<attr> = value': the object after it,
\* and the assignment appended to the record of assignments made.
SetAttr(m, attr, value) ==
    [scenario |-> [m.scenario EXCEPT ![attr] = value],
     written  |-> Append(m.written, attr)]

\* Lines 124-127, on the pair (scenario object, assignments made so far).
MergeGrafanaUrl_ScenarioFirst(m, o) ==
    LET m1 == IF ~Truthy(m.scenario.grafana_url) /\ Truthy(o.grafana_url)
              THEN SetAttr(m, "grafana_url", o.grafana_url) ELSE m
    IN  IF ~Truthy(m1.scenario.grafana_url)
        THEN SetAttr(m1, "grafana_url", DefaultGrafanaUrl) ELSE m1

MergeGrafanaUrl_Unconditional(m, o) ==
    LET m1 == SetAttr(m, "grafana_url",
                      IF Truthy(o.grafana_url) THEN o.grafana_url
                                               ELSE m.scenario.grafana_url)
    IN  SetAttr(m1, "grafana_url",
                IF Truthy(m1.scenario.grafana_url) THEN m1.scenario.grafana_url
                                                   ELSE DefaultGrafanaUrl)

MergeGrafanaUrl(m, o) ==
    LET m1 == IF Truthy(o.grafana_url)
              THEN SetAttr(m, "grafana_url", o.grafana_url) ELSE m
    IN  IF ~Truthy(m1.scenario.grafana_url)
        THEN SetAttr(m1, "grafana_url", DefaultGrafanaUrl) ELSE m1

ResolveGrafanaUrl ==
    /\ At("resolve_url")
    /\ LET m == MergeGrafanaUrl([scenario |-> scenario, written |-> writes], options)
       IN  /\ scenario' = m.scenario
           /\ writes' = m.written
    /\ Goto("resolve_uid")
    /\ UNCHANGED <<argv, options, embedded, step_args, calls, grafana,
                   orchestrator, title, compositor, produce_args>>

\* Lines 131-132, on the pair (scenario object, assignments made so far).
MergeDashboardUid(m, o) ==
    IF Truthy(o.dashboard_uid)
    THEN SetAttr(m, "dashboard_uid", o.dashboard_uid) ELSE m

\* Line 133: the condition under which the run goes on.
HasDashboardUid_Unchecked(scn) == TRUE

HasDashboardUid(scn) == Truthy(scn.dashboard_uid)

\* Lines 131-134.
ResolveDashboardUid ==
    /\ At("resolve_uid")
    /\ LET m == MergeDashboardUid([scenario |-> scenario, written |-> writes], options)
       IN  /\ scenario' = m.scenario
           /\ writes' = m.written
           /\ IF HasDashboardUid(m.scenario)
              THEN Goto("make_grafana")
              ELSE Raise("KeyError",
                         "Dashboard UID is mandatory, either supply it on the command line or via scenario file")
    /\ UNCHANGED <<argv, options, embedded, step_args, calls, grafana,
                   orchestrator, title, compositor, produce_args>>

\* Line 137.
MakeGrafana ==
    /\ At("make_grafana")
    /\ calls' = Append(calls, "make_grafana")
    /\ grafana' = [called |-> TRUE, url |-> scenario.grafana_url,
                   use_panel_events |-> options.use_panel_events]
    /\ \/ Goto("make_storage")
       \/ Raise("Exception", "make_grafana failed")
    /\ UNCHANGED <<argv, options, scenario, embedded, step_args, writes,
                   orchestrator, title, compositor, produce_args>>

\* Lines 138-141.
MakeStorage ==
    /\ At("make_storage")
    /\ calls' = Append(calls, "make_storage")
    /\ \/ Goto("run_animation")
       \/ Raise("Exception", "make_storage failed")
    /\ UNCHANGED <<argv, options, scenario, embedded, step_args, writes, grafana,
                   orchestrator, title, compositor, produce_args>>

\* Line 145: control enters run_animation, which captures the frames.
RunAnimationCall ==
    /\ At("run_animation")
    /\ calls' = Append(calls, "run_animation")
    /\ orchestrator' = "running"
    /\ Goto("in_run_animation")
    /\ UNCHANGED <<argv, options, scenario, embedded, step_args, writes, grafana,
                   title, compositor, produce_args>>

\* Line 145: what run() does with an exception out of run_animation.
\* There is no handler: it leaves run().
AnimationFailed_Swallowed ==
    /\ Goto("get_title")
    /\ UNCHANGED <<status, error>>

AnimationFailed ==
    /\ Raise("Exception", "run_animation failed")

\* Line 145: run_animation returns, or a fatal error comes out of it.
RunAnimationReturn ==
    /\ At("in_run_animation")
    /\ \/ /\ orchestrator' = "returned"
          /\ Goto("get_title")
       \/ /\ orchestrator' = "raised"
          /\ AnimationFailed
    /\ UNCHANGED <<argv, options, scenario, embedded, step_args, writes, calls,
                   grafana, title, compositor, produce_args>>

\* Line 148.
GetDashboardTitle ==
    /\ At("get_title")
    /\ calls' = Append(calls, "get_dashboard_title")
    /\ \/ \E t \in Titles :
            /\ title' = t
            /\ Goto("produce")
       \/ /\ Raise("Exception", "get_dashboard_title failed")
          /\ UNCHANGED title
    /\ UNCHANGED <<argv, options, scenario, embedded, step_args, writes, grafana,
                   orchestrator, compositor, produce_args>>

\* Lines 149-150: the arguments of produce_artifacts.  The path is the
\* spool template filled with slug(options.scenario) and the dashboard UID.
ProduceArguments_NamedByUid(o, scn, t) ==
    [called   |-> TRUE,
     path     |-> <<"./var/spool", <<"slug", o.scenario>>, scn.dashboard_uid>>,
     scenario |-> o.scenario,
     uid      |-> scn.dashboard_uid,
     name     |-> scn.dashboard_uid]

ProduceArguments(o, scn, t) ==
    [called   |-> TRUE,
     path     |-> <<"./var/spool", <<"slug", o.scenario>>, scn.dashboard_uid>>,
     scenario |-> o.scenario,
     uid      |-> scn.dashboard_uid,
     name     |-> t]

\* Lines 149-150: control enters produce_artifacts.
ProduceArtifactsCall ==
    /\ At("produce")
    /\ calls' = Append(calls, "produce_artifacts")
    /\ produce_args' = ProduceArguments(options, scenario, title)
    /\ compositor' = "running"
    /\ Goto("in_produce")
    /\ UNCHANGED <<argv, options, scenario, embedded, step_args, writes, grafana,
                   orchestrator, title>>

\* Lines 150-152: produce_artifacts returns its results and run() ends,
\* or it raises.
ProduceArtifactsReturn ==
    /\ At("in_produce")
    /\ \/ /\ compositor' = "returned"
          /\ status' = "done"
          /\ pc' = "end"
          /\ UNCHANGED error
       \/ /\ compositor' = "raised"
          /\ Raise("Exception", "produce_artifacts failed")
    /\ UNCHANGED <<argv, options, scenario, embedded, step_args, writes, calls,
                   grafana, orchestrator, title, produce_args>>

Next ==
    \/ ParseOptions
    \/ CheckScenario
    \/ CheckSolo
    \/ NormaliseOptions
    \/ LoadScene
    \/ ResolveGrafanaUrl
    \/ ResolveDashboardUid
    \/ MakeGrafana
    \/ MakeStorage
    \/ RunAnimationCall
    \/ RunAnimationReturn
    \/ GetDashboardTitle
    \/ ProduceArtifactsCall
    \/ ProduceArtifactsReturn

Spec == Init /\ [][Next]_vars

(* ---------------------------------------------------------------------- *)
(* Properties                                                              *)
(* ---------------------------------------------------------------------- *)

Called(f) == \E i \in 1..Len(calls) : calls[i] = f
Count(f) == Cardinality({i \in 1..Len(calls) : calls[i] = f})
Before(f, g) == \A i, j \in 1..Len(calls) : (calls[i] = f /\ calls[j] = g) => i < j

\* run() got past lines 115-118.
PastNormalise ==
    pc \in {"load_scene", "resolve_url", "resolve_uid", "make_grafana", "make_storage",
            "run_animation", "in_run_animation", "get_title", "produce", "in_produce", "end"}

\* get_scenario returned a scenario.
Loaded == PastNormalise /\ pc # "load_scene"

\* run() got past lines 131-134.
PastResolution == Loaded /\ pc \notin {"resolve_url", "resolve_uid"}

NothingStarted ==
    /\ calls = <<>>
    /\ scenario = Unbound
    /\ ~grafana.called
    /\ orchestrator = "idle"
    /\ title = None
    /\ compositor = "idle"
    /\ ~produce_args.called

SoloWithoutPanel == argv.dashboard_view = "d-solo" /\ ~Truthy(argv.panel_id)

\* C1: a run with dashboard-view "d-solo" and an absent or empty panel-id
\* never gets past the sanity checks: it ends in DocoptExit, and none of
\* get_scenario, make_grafana, make_storage, run_animation,
\* get_dashboard_title, produce_artifacts is called.
C1_SoloViewFailsFast ==
    SoloWithoutPanel =>
        /\ NothingStarted
        /\ pc \in {"parse", "sanity_scenario", "sanity_solo"}
        /\ status # "done"
        /\ status = "failed" => error.type = "DocoptExit"

C1_Witness ==
    /\ SoloWithoutPanel
    /\ Truthy(argv.scenario)
    /\ status = "failed"
    /\ pc = "sanity_solo"
    /\ error.msg = "Error: Parameter --panel-id is mandatory for --dashboard-view=d-solo"

\* C2: once the options are normalised, use-panel-events true means the
\* exposure time is 0, whatever --exposure-time was; in particular it is 0
\* when make_grafana and run_animation are called.
C2_PanelEventsForceZeroExposure ==
    /\ (PastNormalise /\ (options.use_panel_events \/ argv.use_panel_events))
          => (options.exposure_time.t # "str" /\ options.exposure_time.n = 0)
    /\ (grafana.called /\ grafana.use_panel_events) => options.exposure_time.n = 0
    /\ (orchestrator # "idle" /\ options.use_panel_events) => options.exposure_time.n = 0

C2_Witness ==
    /\ orchestrator = "running"
    /\ grafana.use_panel_events
    /\ argv.exposure_time = [given |-> TRUE, s |-> <<"2">>]
    /\ options.exposure_time.n = 0

UidExpected ==
    IF Truthy(argv.dashboard_uid) THEN argv.dashboard_uid ELSE embedded.dashboard_uid

\* C3: past the dashboard UID resolution the scenario's dashboard_uid is
\* --dashboard-uid when that is non-empty and the embedded value otherwise;
\* when neither supplies one the run ends in an error at the resolution,
\* before make_grafana, make_storage or run_animation is called.
C3_DashboardUidResolution ==
    /\ PastResolution =>
          /\ scenario.dashboard_uid = UidExpected
          /\ Truthy(scenario.dashboard_uid)
    /\ (Loaded /\ ~Truthy(argv.dashboard_uid) /\ ~Truthy(embedded.dashboard_uid)) =>
          /\ pc \in {"resolve_url", "resolve_uid"}
          /\ status # "done"
          /\ status = "failed" => error.type = "KeyError"
          /\ ~Called("make_grafana") /\ ~Called("make_storage") /\ ~Called("run_animation")
          /\ ~grafana.called /\ orchestrator = "idle"

C3_Witness ==
    /\ Loaded
    /\ ~Truthy(argv.dashboard_uid) /\ ~Truthy(embedded.dashboard_uid)
    /\ status = "failed"
    /\ error.type = "KeyError"
    /\ calls = <<"get_scenario">>

UrlExpected ==
    IF Truthy(argv.grafana_url) THEN argv.grafana_url
    ELSE IF Truthy(embedded.grafana_url) THEN embedded.grafana_url
    ELSE "http://localhost:3000"

\* C4: the URL make_grafana is called with is --grafana-url if supplied,
\* otherwise the scenario's embedded grafana_url if non-empty, otherwise
\* "http://localhost:3000"; it is never empty or None.
C4_GrafanaUrlResolution ==
    grafana.called =>
        /\ grafana.url = UrlExpected
        /\ Truthy(grafana.url)
        /\ scenario.grafana_url = grafana.url

C4_Witness ==
    /\ grafana.called
    /\ Truthy(argv.grafana_url)
    /\ Truthy(embedded.grafana_url)
    /\ grafana.url = argv.grafana_url

\* C5: produce_artifacts is entered only after run_animation has returned,
\* the two are never active together, and when run_animation raises
\* produce_artifacts is never called.
C5_PhaseSeparation ==
    /\ compositor # "idle" => orchestrator = "returned"
    /\ Called("produce_artifacts") => (orchestrator = "returned" /\ Called("run_animation"))
    /\ Before("run_animation", "produce_artifacts")
    /\ ~(orchestrator = "running" /\ compositor = "running")
    /\ orchestrator = "raised" =>
          /\ status = "failed"
          /\ compositor = "idle"
          /\ ~Called("produce_artifacts")
          /\ ~produce_args.called

C5_Witness ==
    /\ compositor = "running"
    /\ orchestrator = "returned"
    /\ calls[Len(calls)] = "produce_artifacts"

\* C6: a run with an absent or empty --scenario ends in DocoptExit at the
\* first sanity check; get_scenario is not called and nothing of the
\* pipeline is started.
C6_MissingScenarioFailsFast ==
    ~Truthy(argv.scenario) =>
        /\ NothingStarted
        /\ pc \in {"parse", "sanity_scenario"}
        /\ status # "done"
        /\ status = "failed" =>
              error = [type |-> "DocoptExit", msg |-> "Error: Parameter --scenario is mandatory"]

C6_Witness ==
    /\ ~Truthy(argv.scenario)
    /\ status = "failed"
    /\ pc = "sanity_scenario"
    /\ error.type = "DocoptExit"

WritesTo(w, attr) == Cardinality({i \in 1..Len(w) : w[i] = attr})

\* C7 as stated: every run that resolves its target has assigned to the
\* scenario exactly twice.
C7_ExactlyTwoWrites ==
    PastResolution => Len(writes) = 2

\* C7 as amended: a run assigns to the scenario at most twice, at most once
\* to grafana_url and at most once to dashboard_uid, only in the target
\* resolution right after the load; from the make_grafana call on the
\* scenario is never written.
C7_AtMostTwoWrites ==
    [][ /\ Len(writes') <= 2
        /\ WritesTo(writes', "grafana_url") <= 1
        /\ WritesTo(writes', "dashboard_uid") <= 1
        /\ WritesTo(writes', "steps") = 0
        /\ scenario' # scenario => pc \in {"load_scene", "resolve_url", "resolve_uid"}
        /\ writes' # writes => pc \in {"resolve_url", "resolve_uid"}
        /\ Len(writes') - Len(writes) >=
              Cardinality({a \in {"steps", "grafana_url", "dashboard_uid"} :
                              pc # "load_scene" /\ scenario'[a] # scenario[a]})
      ]_vars

C7_Witness ==
    /\ Called("make_grafana")
    /\ writes = <<"grafana_url", "dashboard_uid">>

\* C8: get_dashboard_title is called at most once, exactly once in a
\* completed run, after run_animation has returned and before
\* produce_artifacts; its result is passed to produce_artifacts as `name'
\* and nowhere else.
C8_TitleCalledOnce ==
    /\ Count("get_dashboard_title") <= 1
    /\ status = "done" => Count("get_dashboard_title") = 1
    /\ Called("get_dashboard_title") => orchestrator = "returned"
    /\ Before("run_animation", "get_dashboard_title")
    /\ Before("get_dashboard_title", "produce_artifacts")
    /\ Called("produce_artifacts") => Called("get_dashboard_title")
    /\ produce_args.called =>
          /\ title \in Titles
          /\ produce_args.name = title
          /\ produce_args.scenario = options.scenario
          /\ produce_args.uid = scenario.dashboard_uid
          /\ produce_args.path = <<"./var/spool", <<"slug", options.scenario>>, scenario.dashboard_uid>>

C8_Witness ==
    /\ status = "done"
    /\ calls = <<"get_scenario", "make_grafana", "make_storage", "run_animation",
                 "get_dashboard_title", "produce_artifacts">>
    /\ produce_args.name \in Titles

\* C9: the navigation mode of every step of the scenario is one of WINDOW
\* and EXPAND, WINDOW when the scenario file gave none, and the run never
\* changes the steps list.
C9_FlavorOneOfTwo ==
    Loaded =>
        /\ scenario.steps = embedded.steps
        /\ Len(scenario.steps) = Len(step_args)
        /\ \A i \in 1..Len(scenario.steps) :
              /\ scenario.steps[i].flavor \in {"window", "expand"}
              /\ step_args[i].flavor = NotGiven => scenario.steps[i].flavor = "window"

ConfiguredExposure ==
    IF argv.exposure_time.given THEN float(argv.exposure_time.s) ELSE 5

\* C10: without panel events the normalised exposure time is the configured
\* --exposure-time as a float (0.5 when not given); the exposure time
\* differs from the configured one only when panel events forced it to 0;
\* use-panel-events keeps the value given on the command line.
C10_ExposureKeptWithoutPanelEvents ==
    /\ (PastNormalise /\ ~options.use_panel_events) =>
          options.exposure_time = PyFloat(ConfiguredExposure)
    /\ (PastNormalise /\ options.exposure_time # PyFloat(ConfiguredExposure)) =>
          (options.use_panel_events /\ options.exposure_time = PyInt(0))
    /\ pc # "parse" => options.use_panel_events = argv.use_panel_events

C10_Witness ==
    /\ PastNormalise
    /\ ~options.use_panel_events
    /\ ~argv.exposure_time.given
    /\ options.exposure_time = PyFloat(5)

====
